---------------------------- MODULE Spec2Model ----------------------------
(***************************************************************************)
(* Model of src/streamlit_app.py: the session state of the CATPrep x       *)
(* MacroTracker Streamlit application (profile, logs, goal, celebration    *)
(* flag, streak shield) and the script runs that change it.                *)
(*                                                                         *)
(* Streamlit executes the whole script, top to bottom, once per user       *)
(* interaction; st.experimental_rerun() ends the current run and starts    *)
(* the next one at once.  One action of the model is one interaction: the  *)
(* script run it triggers and, where the handler asks for it, the rerun    *)
(* that follows.                                                           *)
(*                                                                         *)
(* Not modelled, because no state of the session depends on them: the      *)
(* profile's name, the macro fields of a meal entry, the widgets' layout,  *)
(* the random leaderboard and the optional Supabase client (never used     *)
(* after get_supabase()).                                                  *)
(***************************************************************************)
EXTENDS Integers, Sequences, FiniteSets, TLC

VARIABLES
    day,             \* date.today(), in days since EpochDate
    profile,         \* ss.profile: <<>> for None, else <<[streak, xp, last_active]>>
    study_log,       \* ss.study_log: sequence of [date, minutes]
    meal_log,        \* ss.meal_log: sequence of [date, item]
    goal_minutes,    \* ss.goal_minutes
    celebrated,      \* ss.celebrated
    streak_shield,   \* ss.streak_shield
    screen,          \* what the last script run displayed: [page, shown]
    timer,           \* -1, or the day on which the running 10-min session began
    confetti,        \* history: celebrations played on the current day
    dayStartStreak,  \* history: the streak when the current day began
    forgiven,        \* history: <<>>, or <<[last, streak]>> at the shield's use
    checks           \* history: the gap checks the last interaction executed

vars == <<day, profile, study_log, meal_log, goal_minutes, celebrated,
          streak_shield, screen, timer, confetti, dayStartStreak, forgiven,
          checks>>

---------------------------------------------------------------------------
(* Bounds of the model *)
MaxDay == 3
MaxEntries == 2

(* Config, lines 48-52 *)
XP_PER_MIN == 1
MEAL_BONUS == 5
SESSION_LENGTH == 10
GoalLight == 45
GoalRegular == 60
GoalIntense == 90
GOALS == {GoalLight, GoalRegular, GoalIntense}

Pages == {"Home", "Study", "Meals", "Path", "Stats"}

\* values tried in st.number_input("Add minutes", 0, 180, 5)
MinuteInputs == {0, 60}
\* values tried in r.text_input("Item"): empty and non-empty
ItemInputs == {"", "dal"}

Min(a, b) == IF a < b THEN a ELSE b

---------------------------------------------------------------------------
(* Dates.  A date object is its day count since EpochDate; the ISO string  *)
(* "YYYY-MM-DD" kept in profile["last_active"] is the triple <<y, m, d>>.  *)
EpochDate == <<2024, 2, 27>>

IsLeap(y) == (y % 4 = 0) /\ ((y % 100 # 0) \/ (y % 400 = 0))

DaysInMonth(y, m) ==
    IF m = 2 THEN (IF IsLeap(y) THEN 29 ELSE 28)
    ELSE IF m \in {4, 6, 9, 11} THEN 30 ELSE 31

NextDate(t) ==
    IF t[3] < DaysInMonth(t[1], t[2]) THEN <<t[1], t[2], t[3] + 1>>
    ELSE IF t[2] < 12 THEN <<t[1], t[2] + 1, 1>>
    ELSE <<t[1] + 1, 1, 1>>

\* date.isoformat(): the calendar date of day count n
RECURSIVE Isoformat(_)
Isoformat(n) == IF n = 0 THEN EpochDate ELSE NextDate(Isoformat(n - 1))

RECURSIVE DaysBeforeMonth(_, _)
DaysBeforeMonth(y, m) ==
    IF m = 1 THEN 0 ELSE DaysBeforeMonth(y, m - 1) + DaysInMonth(y, m - 1)

\* date.toordinal(): proleptic Gregorian ordinal of <<y, m, d>>
ToOrdinal(t) ==
    LET y == t[1] - 1
    IN  y * 365 + (y \div 4) - (y \div 100) + (y \div 400)
        + DaysBeforeMonth(t[1], t[2]) + t[3]

\* datetime.fromisoformat(s).date(): the day count of the ISO string
FromIsoformat(t) == ToOrdinal(t) - ToOrdinal(EpochDate)

\* today(), lines 76-77
Today == day

---------------------------------------------------------------------------
(* The session state as one record, so that the helpers compose as in the  *)
(* script.                                                                 *)
St == [profile |-> profile, study_log |-> study_log, meal_log |-> meal_log,
       goal_minutes |-> goal_minutes, celebrated |-> celebrated,
       streak_shield |-> streak_shield, screen |-> screen,
       confetti |-> confetti]

\* the entries logged so far, bounded by MaxEntries
Entries == Len(study_log) + Len(meal_log)

NoProfile == <<>>
NothingShown == <<>>

RECURSIVE TotalOtherDays(_, _)
TotalOtherDays(log, d) ==
    IF log = <<>> THEN 0
    ELSE (IF Head(log).date # d THEN Head(log).minutes ELSE 0)
         + TotalOtherDays(Tail(log), d)

RECURSIVE SumMinutesOn(_, _)
SumMinutesOn(log, d) ==
    IF log = <<>> THEN 0
    ELSE (IF Head(log).date = d THEN Head(log).minutes ELSE 0)
         + SumMinutesOn(Tail(log), d)

\* fault variant of minutes_today(): the date filter left out
MinutesAllDays(s) == SumMinutesOn(s.study_log, Today) +
    TotalOtherDays(s.study_log, Today)

\* minutes_today(), lines 82-83
MinutesToday(s) == SumMinutesOn(s.study_log, Today)

\* fault variant of award_xp(x): assignment in place of +=
AwardXpOverwrite(s, x) == [s EXCEPT !.profile[1].xp = x]

\* award_xp(x), lines 85-86
AwardXp(s, x) == [s EXCEPT !.profile[1].xp = @ + x]

\* fault variant of bump_streak(): last_active not brought to today
BumpStreakNoDate(s) ==
    IF s.profile[1].last_active = Isoformat(Today)
    THEN s
    ELSE [s EXCEPT !.profile[1].streak = @ + 1]

\* fault variant of bump_streak(): the same-day early return left out
BumpStreakNoGuard(s) ==
    [s EXCEPT !.profile[1].streak = @ + 1,
              !.profile[1].last_active = Isoformat(Today)]

\* bump_streak(), lines 88-92
BumpStreak(s) ==
    IF s.profile[1].last_active = Isoformat(Today)
    THEN s
    ELSE [s EXCEPT !.profile[1].streak = @ + 1,
                   !.profile[1].last_active = Isoformat(Today)]

\* fault variant of maybe_break_streak(): the shield taken without `> 0`
MaybeBreakStreakNoShieldTest(s) ==
    LET last == FromIsoformat(s.profile[1].last_active)
    IN  IF last < Today - 1
        THEN [s EXCEPT !.streak_shield = @ - 1]
        ELSE s

\* fault variant of maybe_break_streak(): the shield's use also brings
\* last_active to today
MaybeBreakStreakAdvances(s) ==
    LET last == FromIsoformat(s.profile[1].last_active)
    IN  IF last < Today - 1
        THEN IF s.streak_shield > 0
             THEN [s EXCEPT !.streak_shield = @ - 1,
                            !.profile[1].last_active = Isoformat(Today)]
             ELSE [s EXCEPT !.profile[1].streak = 0]
        ELSE s

\* fault variant of maybe_break_streak(): the streak reset to 1
MaybeBreakStreakResetToOne(s) ==
    LET last == FromIsoformat(s.profile[1].last_active)
    IN  IF last < Today - 1
        THEN IF s.streak_shield > 0
             THEN [s EXCEPT !.streak_shield = @ - 1]
             ELSE [s EXCEPT !.profile[1].streak = 1]
        ELSE s

\* fault variant of maybe_break_streak(): the reset not under `else`
MaybeBreakStreakNoElse(s) ==
    LET last == FromIsoformat(s.profile[1].last_active)
    IN  IF last < Today - 1
        THEN [s EXCEPT !.streak_shield = IF @ > 0 THEN @ - 1 ELSE @,
                       !.profile[1].streak = 0]
        ELSE s

\* fault variant of maybe_break_streak(): yesterday counted as a gap
MaybeBreakStreakOffByOne(s) ==
    LET last == FromIsoformat(s.profile[1].last_active)
    IN  IF last < Today
        THEN IF s.streak_shield > 0
             THEN [s EXCEPT !.streak_shield = @ - 1]
             ELSE [s EXCEPT !.profile[1].streak = 0]
        ELSE s

\* maybe_break_streak(), lines 94-101
MaybeBreakStreak(s) ==
    LET last == FromIsoformat(s.profile[1].last_active)
    IN  IF last < Today - 1
        THEN IF s.streak_shield > 0
             THEN [s EXCEPT !.streak_shield = @ - 1]
             ELSE [s EXCEPT !.profile[1].streak = 0]
        ELSE s

\* fault variant of the percentage: the cap at 100 left out
PctUncapped(logged, goal) == (logged * 100) \div goal

\* pct = min(int(logged/ss.goal_minutes*100),100), line 146.  The float
\* quotient, scaled and truncated, equals the integer quotient for every
\* goal of GOALS and every sum of minutes the model can log.
Pct(logged, goal) == Min((logged * 100) \div goal, 100)

\* fault variant of page_home(): ss.celebrated not consulted
PageHomeNoFlag(s) ==
    LET logged == MinutesToday(s)
        pct    == Pct(logged, s.goal_minutes)
        shown  == [s EXCEPT !.screen =
                     [page |-> "Home",
                      shown |-> <<[day |-> Today, logged |-> logged,
                                   pct |-> pct]>>]]
    IN  IF pct = 100
        THEN [shown EXCEPT !.confetti = @ + 1, !.celebrated = TRUE]
        ELSE shown

\* page_home(), lines 142-156
PageHome(s) ==
    LET logged == MinutesToday(s)
        pct    == Pct(logged, s.goal_minutes)
        shown  == [s EXCEPT !.screen =
                     [page |-> "Home",
                      shown |-> <<[day |-> Today, logged |-> logged,
                                   pct |-> pct]>>]]
    IN  IF pct = 100 /\ ~s.celebrated
        THEN [shown EXCEPT !.confetti = @ + 1, !.celebrated = TRUE]
        ELSE shown

\* a page that only displays: page_study / page_meals with no button
\* pressed, page_path, page_stats
PageOther(s, p) == [s EXCEPT !.screen = [page |-> p, shown |-> NothingShown]]

\* the router, lines 227-242, for a session that has a profile
Router(s, choice) ==
    LET s1 == MaybeBreakStreak(s)
    IN  IF choice = "Home" THEN PageHome(s1) ELSE PageOther(s1, choice)

\* fault variant of the Save body: the log assigned, not appended to
StudySaveOverwrite(s, mins) ==
    LET s1 == [s EXCEPT !.study_log = <<[date |-> Today, minutes |-> mins]>>]
    IN  BumpStreak(AwardXp(s1, mins * XP_PER_MIN))

\* the body of `if st.button("Save") and mins>0`, lines 166-168
StudySave(s, mins) ==
    LET s1 == [s EXCEPT !.study_log =
                 Append(@, [date |-> Today, minutes |-> mins])]
    IN  BumpStreak(AwardXp(s1, mins * XP_PER_MIN))

\* the end of the 10-min session, lines 178-180
SessionDone(s) ==
    LET s1 == [s EXCEPT !.study_log =
                 Append(@, [date |-> Today, minutes |-> SESSION_LENGTH])]
    IN  BumpStreak(AwardXp(s1, SESSION_LENGTH * XP_PER_MIN))

\* the body of `if r.button("Add") and item`, lines 194-196
MealAdd(s, item) ==
    LET s1 == [s EXCEPT !.meal_log =
                 Append(@, [date |-> Today, item |-> item])]
    IN  BumpStreak(AwardXp(s1, MEAL_BONUS))

\* fault variant of the onboarding submit: the goal stored in seconds
OnboardSubmitSeconds(s, goal) ==
    [s EXCEPT !.profile = <<[streak |-> 0, xp |-> 0,
                             last_active |-> Isoformat(Today)]>>,
              !.goal_minutes = goal * 60]

\* the form's submit branch of onboarding(), lines 111-117
OnboardSubmit(s, goal) ==
    [s EXCEPT !.profile = <<[streak |-> 0, xp |-> 0,
                             last_active |-> Isoformat(Today)]>>,
              !.goal_minutes = goal]

---------------------------------------------------------------------------
(* History: what one execution of maybe_break_streak() found and did.      *)
CheckOf(s) ==
    LET t == MaybeBreakStreak(s)
    IN  [last    |-> FromIsoformat(s.profile[1].last_active),
         today   |-> Today,
         streak  |-> s.profile[1].streak,
         shield  |-> s.streak_shield,
         streak2 |-> t.profile[1].streak,
         shield2 |-> t.streak_shield]

\* the session state after an interaction, with the history kept beside it
Commit(s, chk, tm) ==
    /\ profile' = s.profile
    /\ study_log' = s.study_log
    /\ meal_log' = s.meal_log
    /\ goal_minutes' = s.goal_minutes
    /\ celebrated' = s.celebrated
    /\ streak_shield' = s.streak_shield
    /\ screen' = s.screen
    /\ confetti' = s.confetti
    /\ timer' = tm
    /\ checks' = chk
    /\ forgiven' = IF profile # NoProfile /\ s.streak_shield < streak_shield
                   THEN <<[last |-> profile[1].last_active,
                           streak |-> profile[1].streak]>>
                   ELSE forgiven
    /\ dayStartStreak' = IF profile = NoProfile THEN s.profile[1].streak
                         ELSE dayStartStreak
    /\ day' = day

\* a run whose button is pressed but whose condition fails (`mins>0`,
\* line 165; `item`, line 193): the page p is displayed and nothing saved
Rejected(p) ==
    Commit(PageOther(MaybeBreakStreak(St), p), <<CheckOf(St)>>, -1)

---------------------------------------------------------------------------
Init ==
    /\ day = 0
    /\ profile = NoProfile
    /\ study_log = <<>>
    /\ meal_log = <<>>
    /\ goal_minutes = GoalRegular
    /\ celebrated = FALSE
    /\ streak_shield = 1
    /\ screen = [page |-> "Onboarding", shown |-> NothingShown]
    /\ timer = -1
    /\ confetti = 0
    /\ dayStartStreak = 0
    /\ forgiven = <<>>
    /\ checks = <<>>

\* "Start" on the onboarding form, then the rerun, which shows Home
Onboard ==
    /\ profile = NoProfile
    /\ \E g \in GOALS :
         LET s1 == OnboardSubmit(St, g)
         IN  Commit(Router(s1, "Home"), <<CheckOf(s1)>>, -1)

\* a run with no button pressed: choosing a page in the sidebar, or
\* changing an input of the page shown
Render ==
    /\ profile # NoProfile
    /\ \E p \in Pages : Commit(Router(St, p), <<CheckOf(St)>>, -1)

\* pressing Save on the Study page
Save ==
    /\ profile # NoProfile
    /\ screen.page = "Study"
    /\ Entries < MaxEntries
    /\ \E mins \in MinuteInputs :
         LET s1 == MaybeBreakStreak(St)
         IN  IF mins > 0
             THEN LET s2 == StudySave(s1, mins)
                  IN  Commit(Router(s2, "Study"),
                             <<CheckOf(St), CheckOf(s2)>>, -1)
             ELSE Rejected("Study")

\* pressing "Start 10-min session": the run enters the countdown loop
StartSession ==
    /\ profile # NoProfile
    /\ screen.page = "Study"
    /\ Entries < MaxEntries
    /\ Commit(PageOther(MaybeBreakStreak(St), "Study"), <<CheckOf(St)>>, day)

\* the countdown loop ends: the reward, then the rerun
FinishSession ==
    /\ timer # -1
    /\ LET s1 == SessionDone(St)
       IN  Commit(Router(s1, "Study"), <<CheckOf(s1)>>, -1)

\* pressing Add on the Meals page
Add ==
    /\ profile # NoProfile
    /\ screen.page = "Meals"
    /\ Entries < MaxEntries
    /\ \E item \in ItemInputs :
         LET s1 == MaybeBreakStreak(St)
         IN  IF item # ""
             THEN LET s2 == MealAdd(s1, item)
                  IN  Commit(Router(s2, "Meals"),
                             <<CheckOf(St), CheckOf(s2)>>, -1)
             ELSE Rejected("Meals")

\* midnight passes; a 10-min session spans at most one midnight
Midnight ==
    /\ day < MaxDay
    /\ timer \in {-1, day}
    /\ day' = day + 1
    /\ confetti' = 0
    /\ dayStartStreak' = IF profile = NoProfile THEN 0 ELSE profile[1].streak
    /\ UNCHANGED <<profile, study_log, meal_log, goal_minutes, celebrated,
                   streak_shield, screen, timer, forgiven, checks>>

Next ==
    \/ Onboard
    \/ Render
    \/ Save
    \/ StartSession
    \/ FinishSession
    \/ Add
    \/ Midnight

Spec == Init /\ [][Next]_vars

---------------------------------------------------------------------------
(* Derived values the properties read *)
HasProfile == profile # NoProfile
Streak == profile[1].streak
LastActive == FromIsoformat(profile[1].last_active)
\* last_active is more than one day before today
GapPending == HasProfile /\ LastActive < day - 1

\* the minutes of the entries dated d, counted entry by entry
MinutesLoggedOn(d) ==
    LET today_entries == {i \in 1..Len(study_log) : study_log[i].date = d}
        RECURSIVE Total(_)
        Total(S) == IF S = {} THEN 0
                    ELSE LET i == CHOOSE x \in S : TRUE
                         IN  study_log[i].minutes + Total(S \ {i})
    IN  Total(today_entries)

RECURSIVE TotalMinutes(_)
TotalMinutes(log) ==
    IF log = <<>> THEN 0 ELSE Head(log).minutes + TotalMinutes(Tail(log))

\* the progress a Home render would show in the current state
GoalPct == Pct(MinutesToday(St), goal_minutes)

---------------------------------------------------------------------------
\* C1: once a shield has forgiven a gap, the streak keeps the value it had
\* at that moment for as long as last_active is unchanged, i.e. through
\* every later render, navigation and rejected submission up to the next
\* qualifying action.
C1_ForgivenGapKeepsStreak ==
    (HasProfile /\ forgiven # <<>> /\ forgiven[1].last = profile[1].last_active)
        => Streak = forgiven[1].streak

\* C2: over one calendar day, whatever is logged and rendered, the streak
\* ends at most 1 above its value when the day began.
C2_AtMostOneIncrementPerDay ==
    HasProfile => Streak <= dayStartStreak + 1

C2_Witness ==
    /\ HasProfile
    /\ Streak = dayStartStreak + 1
    /\ Entries >= 2
    /\ \A i \in 1..Len(study_log) : study_log[i].date = day
    /\ \A i \in 1..Len(meal_log) : meal_log[i].date = day
    /\ screen.page = "Home"

\* C3: after onboarding, xp is the minutes of all study entries times
\* XP_PER_MIN plus MEAL_BONUS for every meal entry.
C3_XpIsSumOfLogs ==
    HasProfile =>
        profile[1].xp = TotalMinutes(study_log) * XP_PER_MIN
                        + MEAL_BONUS * Len(meal_log)

C3_Witness ==
    /\ HasProfile
    /\ Len(study_log) >= 1
    /\ Len(meal_log) >= 1
    /\ profile[1].xp > MEAL_BONUS

\* C4: the first qualifying action after onboarding, on whatever day, sets
\* streak to 1 and last_active to that day.
C4_FirstActionStartsStreak ==
    [][(HasProfile /\ Entries = 0
        /\ Len(study_log') + Len(meal_log') = 1)
       => (profile'[1].streak = 1
           /\ profile'[1].last_active = Isoformat(day'))]_vars

\* C5: on a day on which Home has been rendered with the goal met, the
\* celebration has played exactly once that day.
C5_CelebrationEveryGoalDay ==
    (screen.page = "Home" /\ screen.shown[1].day = day
     /\ screen.shown[1].pct = 100)
        => confetti = 1

\* C6: within one day the celebration plays at most once, and only on a
\* day whose progress has reached 100%.
C6_CelebrationAtMostOncePerDay ==
    /\ confetti <= 1
    /\ confetti >= 1 => (HasProfile /\ GoalPct = 100)

C6_Witness ==
    /\ confetti = 1
    /\ Len(study_log) >= 2
    /\ \A i \in 1..Len(study_log) : study_log[i].date = day
    /\ MinutesLoggedOn(day) > goal_minutes
    /\ screen.page = "Home"

\* C7: a gap check run with last_active more than one day before today and
\* a shield available takes exactly one shield and leaves streak as it was.
C7_ShieldConsumed ==
    \A i \in 1..Len(checks) :
        (checks[i].last < checks[i].today - 1 /\ checks[i].shield >= 1)
            => /\ checks[i].shield2 = checks[i].shield - 1
               /\ checks[i].streak2 = checks[i].streak

C7_Witness ==
    \E i \in 1..Len(checks) :
        /\ checks[i].last < checks[i].today - 1
        /\ checks[i].shield = 1
        /\ checks[i].streak >= 1
        /\ checks[i].shield2 = 0

\* C8: a gap check run with last_active more than one day before today and
\* no shield sets streak to 0 and leaves the shield at 0; one run with
\* last_active today or yesterday changes neither.
C8_ResetOrNoChange ==
    \A i \in 1..Len(checks) :
        /\ (checks[i].last < checks[i].today - 1 /\ checks[i].shield = 0)
              => (checks[i].streak2 = 0 /\ checks[i].shield2 = 0)
        /\ checks[i].last >= checks[i].today - 1
              => (checks[i].streak2 = checks[i].streak
                  /\ checks[i].shield2 = checks[i].shield)

C8_Witness ==
    /\ \E i \in 1..Len(checks) :
         /\ checks[i].last < checks[i].today - 1
         /\ checks[i].shield = 0
         /\ checks[i].streak >= 1
         /\ checks[i].streak2 = 0
    /\ forgiven # <<>>

\* C9: the progress Home shows for today is min(100, floor(100*M/goal))
\* with M the minutes of the entries dated today only, and lies in 0..100.
C9_ProgressShown ==
    (screen.page = "Home" /\ screen.shown[1].day = day)
        => /\ screen.shown[1].pct =
                Min(100, (100 * MinutesLoggedOn(day)) \div goal_minutes)
           /\ screen.shown[1].logged = MinutesLoggedOn(day)
           /\ screen.shown[1].pct \in 0..100

C9_Witness ==
    /\ screen.page = "Home"
    /\ screen.shown[1].day = day
    /\ screen.shown[1].pct \in 1..99
    /\ \E i \in 1..Len(study_log) : study_log[i].date < day
    /\ \E i \in 1..Len(study_log) : study_log[i].date = day

\* C10: while the day stays the same the progress percentage never goes
\* down, and once 100 it stays 100.
C10_ProgressMonotone ==
    [][(HasProfile /\ day' = day)
       => (GoalPct' >= GoalPct /\ (GoalPct = 100 => GoalPct' = 100))]_vars

C10_Witness ==
    /\ HasProfile
    /\ GoalPct = 100
    /\ MinutesLoggedOn(day) > goal_minutes
    /\ Len(study_log) >= 2

\* a sequence a is a prefix of a sequence b
IsPrefix(a, b) == Len(a) <= Len(b) /\ SubSeq(b, 1, Len(a)) = a

C12_XpNeverDecreases ==
    /\ [](HasProfile => profile[1].xp \in Nat)
    /\ [][HasProfile => profile'[1].xp >= profile[1].xp]_vars

C12_Witness ==
    /\ HasProfile
    /\ Len(study_log) >= 1
    /\ Len(meal_log) >= 1
    /\ meal_log[1].date > study_log[1].date
    /\ profile[1].xp >= SESSION_LENGTH + MEAL_BONUS

\* C13: after onboarding last_active is never later than the current day,
\* and right after a qualifying action it is the current day.
C13_LastActiveNotInFuture ==
    /\ [](HasProfile => LastActive <= day)
    /\ [][(HasProfile /\ Len(study_log') + Len(meal_log') > Entries)
          => profile'[1].last_active = Isoformat(day')]_vars

C13_Witness ==
    /\ HasProfile
    /\ Entries >= 1
    /\ LastActive = day
    /\ day >= 2
    /\ forgiven # <<>>
    /\ FromIsoformat(forgiven[1].last) < day - 1

\* C14: study_log and meal_log only grow at the end (the old log is a
\* prefix of the new one) and every study entry has minutes > 0.
C14_LogsAppendOnly ==
    /\ [](\A i \in 1..Len(study_log) : study_log[i].minutes > 0)
    /\ [][IsPrefix(study_log, study_log') /\ IsPrefix(meal_log, meal_log')]_vars

C14_Witness ==
    /\ Len(study_log) >= 2
    /\ study_log[1].minutes # study_log[2].minutes

\* C15: a rejected submission (Save with 0 minutes, Add with an empty
\* item) leaves study_log, meal_log, xp, streak, streak_shield and
\* last_active unchanged, on a day with a gap pending too.
C15_RejectedChangesNothing ==
    [][(HasProfile /\ screen.page \in {"Study", "Meals"}
        /\ Rejected(screen.page))
       => UNCHANGED <<study_log, meal_log, profile, streak_shield>>]_vars

\* a step that logs an entry: a study save, a finished session, a meal add
Qualifying == Len(study_log') + Len(meal_log') = Entries + 1

\* C16: a run that logs nothing (so that the gap check is all that can
\* touch the profile) leaves last_active, xp, study_log and meal_log as
\* they were; last_active changes only in a step that logs an entry.
C16_GapCheckFrame ==
    [][HasProfile =>
         /\ ~Qualifying =>
               /\ profile'[1].last_active = profile[1].last_active
               /\ profile'[1].xp = profile[1].xp
               /\ study_log' = study_log
               /\ meal_log' = meal_log
         /\ profile'[1].last_active # profile[1].last_active => Qualifying]_vars

C16_Witness ==
    /\ GapPending
    /\ streak_shield = 0
    /\ forgiven # <<>>
    /\ forgiven[1].last = profile[1].last_active
    /\ Len(checks) = 1
    /\ checks[1].shield = 1
    /\ Entries >= 1

\* C17: goal_minutes is always one of 45, 60, 90, and once onboarding has
\* completed no step changes it.
C17_GoalFixed ==
    /\ [](goal_minutes \in {45, 60, 90})
    /\ [][HasProfile => goal_minutes' = goal_minutes]_vars

C17_Witness ==
    /\ HasProfile
    /\ goal_minutes = 90
    /\ Len(study_log) >= 1
    /\ screen.page = "Home"
    /\ screen.shown[1].day = day
    /\ screen.shown[1].pct \in 1..99

\* what pressing Save with SESSION_LENGTH minutes does from the current
\* state: the run's gap check, the Save body, the rerun
ManualSaveOfSession ==
    Router(StudySave(MaybeBreakStreak(St), SESSION_LENGTH), "Study")

C20_StreakDropsOnlyByReset ==
    [][(HasProfile /\ profile'[1].streak < Streak)
       => /\ streak_shield = 0
          /\ GapPending
          /\ checks'[1].streak = Streak
          /\ checks'[1].streak2 = 0
          /\ profile'[1].streak \in {0, 1}
          /\ profile'[1].streak = 1 => Qualifying]_vars

C20_Witness ==
    /\ HasProfile
    /\ Streak = 0
    /\ Len(checks) = 1
    /\ checks[1].streak >= 1
    /\ checks[1].streak2 = 0
    /\ checks[1].shield = 0

===========================================================================
